---- MODULE Spec2Model ----
(***************************************************************************)
(* Model of src/src/mysql_import.cpp: the chunked import of one metric     *)
(* from a MySQL table (dataheap) into an HTA metric.                       *)
(*                                                                         *)
(* The source table is a finite sequence of rows kept in ascending         *)
(* timestamp order; a row is identified by its index, which also stands    *)
(* for its value column.  Timestamps are unsigned milliseconds; every      *)
(* timestamp of the model is far below 2^63 / 10^6, so neither the 64 bit  *)
(* arithmetic of import nor the conversion to nanoseconds wraps.           *)
(* The program is modelled as built with assertions enabled (line 94).     *)
(***************************************************************************)
EXTENDS Integers, Sequences, FiniteSets, TLC

\* ---- bounds of the model ------------------------------------------------
MaxTs == 12
MaxRows == 3
MaxLimit == 2
MaxReq == 2

\* std::chrono::milliseconds -> hta::Duration (nanoseconds), lines 166-167
NsPerMs == 1000000

VARIABLES
    table,                       \* rows of the source metric (timestamps)
    ordered,                     \* the source honours ORDER BY timestamp ASC
    arg_min_timestamp,           \* main's min_timestamp, as passed to import
    arg_max_timestamp,           \* main's max_timestamp, as passed to import
    min_timestamp,               \* import's parameter, clamped at line 121
    max_timestamp,               \* import's parameter, clamped at 122-129
    max_limit,                   \* import's parameter (mysql-chunk-size)
    stats,                       \* result of stats_query
    chunk_timedelta,
    current_timestamp,
    next_timestamp,
    res,                         \* rows of the result set not yet fetched
    current_dataheap_timestamp,
    row,
    previous_time,
    out_metric,                  \* samples inserted into the HTA metric
    out_flushed,                 \* how many of them a flush has covered
    skipped,                     \* rows reported as non-monotonous
    reported,                    \* the "completed import of N rows" line
    stop_requested,
    chunks,                      \* history: the chunk queries answered so far
    pc                           \* position of main/import

vars == <<table, ordered, arg_min_timestamp, arg_max_timestamp, min_timestamp,
          max_timestamp, max_limit, stats, chunk_timedelta, current_timestamp,
          next_timestamp, res, current_dataheap_timestamp, row, previous_time,
          out_metric, out_flushed, skipped, reported, stop_requested, chunks, pc>>

\* ---- helpers ------------------------------------------------------------
Min(a, b) == IF a <= b THEN a ELSE b

Max(a, b) == IF a >= b THEN a ELSE b

Range(s) == {s[i] : i \in 1..Len(s)}

IsAscending(s) == \A i \in 1..Len(s) - 1 : s[i] <= s[i + 1]

\* Every content of the source table with at most MaxRows rows.
Tables ==
    UNION {{t \in [1..n -> 0..MaxTs] : IsAscending(t)} : n \in 0..MaxRows}

\* The history keeps at most this many chunks; a run that completes issues
\* fewer, since every iteration of such a run advances current_timestamp.
MaxChunks == MaxTs + 3

\* ---- stats_query (lines 88-100) ----------------------------------------
\* COUNT/MIN/MAX without GROUP BY always yields one row, so result->next()
\* holds; on an empty table MIN and MAX are NULL, which getUInt64 reads as 0.
stats_query(t) ==
    [count         |-> Len(t),
     min_timestamp |-> IF Len(t) = 0 THEN 0 ELSE t[1],
     max_timestamp |-> IF Len(t) = 0 THEN 0 ELSE t[Len(t)]]

\* ---- chunk size (lines 131-134) ----------------------------------------
\* Stands for 2^63, the other value the conversion of NaN to uint64_t yields:
\* any value above every upper bound acts the same in std::min at line 149.
NaNCastHigh == MaxTs + 2

\* double(max - min) / count * max_limit / 2, truncated to uint64_t.  For the
\* values of the model the double arithmetic is exact up to the truncation.
\* count = 0 gives 0.0 / 0 = NaN, whose conversion is undefined.
ChunkTimedeltas(s, limit) ==
    IF s.count = 0
    THEN {0, NaNCastHigh}
    ELSE {((s.max_timestamp - s.min_timestamp) * limit) \div (2 * s.count)}

\* ---- the chunk query (lines 115-117, 151-155) ---------------------------
\* SELECT ... WHERE timestamp >= lo AND timestamp < hi
\*            ORDER BY timestamp ASC LIMIT limit
InWindow(t, lo, hi) == {i \in 1..Len(t) : lo <= t[i] /\ t[i] < hi}

QueryResults(t, lo, hi, limit, ord) ==
    LET W == InWindow(t, lo, hi)
        k == Min(Cardinality(W), limit)
        all == {s \in [1..k -> W] : \A i, j \in 1..k : i # j => s[i] # s[j]}
    IN  IF ord
        THEN {s \in all :
                /\ \A i \in 1..k - 1 : t[s[i]] <= t[s[i + 1]]
                /\ \A j \in W \ Range(s) : k > 0 /\ t[s[k]] <= t[j]}
        ELSE all

\* ---- conversion to hta::TimePoint (lines 166-167) -----------------------
TimePointOf(ms) == ms * NsPerMs

\* Variants of the test at line 168: one that lets an equal timestamp pass,
\* one that lets every timestamp pass.
IsNonMonotonous_Strict(hta_time, prev) == hta_time < prev

IsNonMonotonous_Never(hta_time, prev) == FALSE

\* hta_time <= previous_time, line 168
IsNonMonotonous(hta_time, prev) == hta_time <= prev

\* ---- initial state ------------------------------------------------------
Init ==
    /\ table \in Tables
    /\ ordered \in BOOLEAN
    /\ arg_min_timestamp \in 0..MaxReq
    /\ arg_max_timestamp \in 0..MaxReq
    /\ min_timestamp = arg_min_timestamp
    /\ max_timestamp = arg_max_timestamp
    /\ max_limit \in 1..MaxLimit
    /\ stats = [count |-> 0, min_timestamp |-> 0, max_timestamp |-> 0]
    /\ chunk_timedelta = 0
    /\ current_timestamp = 0
    /\ next_timestamp = 0
    /\ res = <<>>
    /\ current_dataheap_timestamp = 0
    /\ row = 0
    /\ previous_time = 0          \* hta::TimePoint{}: the epoch (line 112)
    /\ out_metric = <<>>
    /\ out_flushed = 0
    /\ skipped = <<>>
    /\ reported = <<>>
    /\ stop_requested = 0
    /\ chunks = <<>>
    /\ pc = "start"

\* ---- handle_signal (lines 65-69) ----------------------------------------
\* Installed at line 261 and never removed: SIGINT may arrive at any position,
\* also after import has returned or an exception has left main.
handle_signal ==
    /\ stop_requested' = 1
    /\ UNCHANGED <<table, ordered, arg_min_timestamp, arg_max_timestamp,
                   min_timestamp, max_timestamp, max_limit, stats,
                   chunk_timedelta, current_timestamp, next_timestamp, res,
                   current_dataheap_timestamp, row, previous_time, out_metric,
                   out_flushed, skipped, reported, chunks, pc>>

\* ---- import, lines 108-139: probe, clamp, size the chunk ---------------
\* Variant of lines 121-129 that takes a requested upper bound as it is.
Clamp_UpperAsRequested(lo, hi, s) ==
    [min_timestamp |-> Max(lo, s.min_timestamp),
     max_timestamp |-> IF hi # 0 THEN hi ELSE s.max_timestamp + 1]

\* Variant of line 121 that keeps the requested lower bound only while it
\* lies inside the source's extent.
Clamp_LowerInsideExtent(lo, hi, s) ==
    [min_timestamp |-> IF lo > s.max_timestamp THEN s.min_timestamp
                                               ELSE Max(lo, s.min_timestamp),
     max_timestamp |-> IF hi # 0 THEN Min(hi, s.max_timestamp + 1)
                                 ELSE s.max_timestamp + 1]

Clamp(lo, hi, s) ==
    [min_timestamp |-> Max(lo, s.min_timestamp),
     max_timestamp |-> IF hi # 0 THEN Min(hi, s.max_timestamp + 1)
                                 ELSE s.max_timestamp + 1]

Begin ==
    /\ pc = "start"
    /\ LET s == stats_query(table)
           b == Clamp(min_timestamp, max_timestamp, s)
       IN  /\ stats' = s
           /\ min_timestamp' = b.min_timestamp
           /\ max_timestamp' = b.max_timestamp
           /\ chunk_timedelta' \in ChunkTimedeltas(s, max_limit)
           /\ current_timestamp' = b.min_timestamp
    /\ pc' = "loop"
    /\ UNCHANGED <<table, ordered, arg_min_timestamp, arg_max_timestamp,
                   max_limit, next_timestamp, res, current_dataheap_timestamp,
                   row, previous_time, out_metric, out_flushed, skipped,
                   reported, stop_requested, chunks>>

\* stats_query's executeQuery throws (line 93): the exception leaves main.
StatsFail ==
    /\ pc = "start"
    /\ pc' = "aborted"
    /\ UNCHANGED <<table, ordered, arg_min_timestamp, arg_max_timestamp,
                   min_timestamp, max_timestamp, max_limit, stats,
                   chunk_timedelta, current_timestamp, next_timestamp, res,
                   current_dataheap_timestamp, row, previous_time, out_metric,
                   out_flushed, skipped, reported, stop_requested, chunks>>

\* ---- lines 142-147: the loop's exit ------------------------------------
\* Variant of the test at line 142 that goes on for one more chunk.
ImportDone_Late(cur, upper) == cur > upper

\* current_timestamp >= max_timestamp, line 142
ImportDone(cur, upper) == cur >= upper

Complete ==
    /\ pc = "loop"
    /\ ImportDone(current_timestamp, max_timestamp)
    /\ reported' = Append(reported, row)
    /\ pc' = "done"
    /\ UNCHANGED <<table, ordered, arg_min_timestamp, arg_max_timestamp,
                   min_timestamp, max_timestamp, max_limit, stats,
                   chunk_timedelta, current_timestamp, next_timestamp, res,
                   current_dataheap_timestamp, row, previous_time, out_metric,
                   out_flushed, skipped, stop_requested, chunks>>

\* ---- lines 149-155: the chunk query is sent ----------------------------
\* Variant of line 149 that does not cut the window at max_timestamp.
IssueQuery_Uncut ==
    /\ pc = "loop"
    /\ ~ImportDone(current_timestamp, max_timestamp)
    /\ next_timestamp' = current_timestamp + chunk_timedelta
    /\ pc' = "exec"
    /\ UNCHANGED <<table, ordered, arg_min_timestamp, arg_max_timestamp,
                   min_timestamp, max_timestamp, max_limit, stats,
                   chunk_timedelta, current_timestamp, res,
                   current_dataheap_timestamp, row, previous_time, out_metric,
                   out_flushed, skipped, reported, stop_requested, chunks>>

IssueQuery ==
    /\ pc = "loop"
    /\ ~ImportDone(current_timestamp, max_timestamp)
    /\ next_timestamp' = Min(current_timestamp + chunk_timedelta, max_timestamp)
    /\ pc' = "exec"
    /\ UNCHANGED <<table, ordered, arg_min_timestamp, arg_max_timestamp,
                   min_timestamp, max_timestamp, max_limit, stats,
                   chunk_timedelta, current_timestamp, res,
                   current_dataheap_timestamp, row, previous_time, out_metric,
                   out_flushed, skipped, reported, stop_requested, chunks>>

\* Variant in which a failed chunk query is swallowed and the loop goes on.
QueryFail_Retry ==
    /\ pc = "exec"
    /\ pc' = "loop"
    /\ UNCHANGED <<table, ordered, arg_min_timestamp, arg_max_timestamp,
                   min_timestamp, max_timestamp, max_limit, stats,
                   chunk_timedelta, current_timestamp, next_timestamp, res,
                   current_dataheap_timestamp, row, previous_time, out_metric,
                   out_flushed, skipped, reported, stop_requested, chunks>>

\* executeQuery throws (line 155): the exception leaves import and main.
QueryFail ==
    /\ pc = "exec"
    /\ pc' = "aborted"
    /\ UNCHANGED <<table, ordered, arg_min_timestamp, arg_max_timestamp,
                   min_timestamp, max_timestamp, max_limit, stats,
                   chunk_timedelta, current_timestamp, next_timestamp, res,
                   current_dataheap_timestamp, row, previous_time, out_metric,
                   out_flushed, skipped, reported, stop_requested, chunks>>

\* The history of answered chunks.  An empty window (lo = hi) that is
\* queried again right after itself is kept once, so that a loop which
\* repeats one query returns to the same state, as the program does.
Record(h, c) ==
    IF Len(h) > 0 /\ h[Len(h)] = c /\ c.lo = c.hi THEN h
    ELSE IF Len(h) < MaxChunks THEN Append(h, c)
    ELSE h

\* ---- lines 155-161: the result set arrives -----------------------------
\* Variant that steps one past the window's edge after an empty chunk.
Receive_PastEdge ==
    /\ pc = "exec"
    /\ \E r \in QueryResults(table, current_timestamp, next_timestamp,
                             max_limit, ordered) :
        /\ res' = r
        /\ chunks' = Record(chunks, [lo |-> current_timestamp,
                                     hi |-> next_timestamp, rows |-> r])
        /\ IF Len(r) = 0
           THEN /\ current_timestamp' = next_timestamp + 1
                /\ pc' = "loop"
           ELSE /\ current_timestamp' = current_timestamp
                /\ pc' = "rows"
    /\ UNCHANGED <<table, ordered, arg_min_timestamp, arg_max_timestamp,
                   min_timestamp, max_timestamp, max_limit, stats,
                   chunk_timedelta, next_timestamp,
                   current_dataheap_timestamp, row, previous_time, out_metric,
                   out_flushed, skipped, reported, stop_requested>>

Receive ==
    /\ pc = "exec"
    /\ \E r \in QueryResults(table, current_timestamp, next_timestamp,
                             max_limit, ordered) :
        /\ res' = r
        /\ chunks' = Record(chunks, [lo |-> current_timestamp,
                                     hi |-> next_timestamp, rows |-> r])
        /\ IF Len(r) = 0
           THEN /\ current_timestamp' = next_timestamp
                /\ pc' = "loop"
           ELSE /\ current_timestamp' = current_timestamp
                /\ pc' = "rows"
    /\ UNCHANGED <<table, ordered, arg_min_timestamp, arg_max_timestamp,
                   min_timestamp, max_timestamp, max_limit, stats,
                   chunk_timedelta, next_timestamp,
                   current_dataheap_timestamp, row, previous_time, out_metric,
                   out_flushed, skipped, reported, stop_requested>>

\* ---- lines 162-175: one row of the result set --------------------------
NextRow ==
    /\ pc = "rows"
    /\ res # <<>>
    /\ LET id == Head(res)
           hta_time == TimePointOf(table[id])
       IN  /\ current_dataheap_timestamp' = table[id]
           /\ row' = row + 1
           /\ IF IsNonMonotonous(hta_time, previous_time)
              THEN /\ skipped' = Append(skipped, id)
                   /\ UNCHANGED <<previous_time, out_metric>>
              ELSE /\ previous_time' = hta_time
                   /\ out_metric' = Append(out_metric,
                                           [time |-> hta_time, value |-> id])
                   /\ UNCHANGED skipped
    /\ res' = Tail(res)
    /\ UNCHANGED <<table, ordered, arg_min_timestamp, arg_max_timestamp,
                   min_timestamp, max_timestamp, max_limit, stats,
                   chunk_timedelta, current_timestamp, next_timestamp,
                   out_flushed, reported, stop_requested, chunks, pc>>

\* ---- lines 177-180: flush and advance ----------------------------------
\* Variant that advances to the nominal edge of the window.
Flush_ToWindowEdge ==
    /\ pc = "rows"
    /\ res = <<>>
    /\ out_flushed' = Len(out_metric)
    /\ current_timestamp' = next_timestamp
    /\ pc' = "loop"
    /\ UNCHANGED <<table, ordered, arg_min_timestamp, arg_max_timestamp,
                   min_timestamp, max_timestamp, max_limit, stats,
                   chunk_timedelta, next_timestamp, res,
                   current_dataheap_timestamp, row, previous_time, out_metric,
                   skipped, reported, stop_requested, chunks>>

\* Variant that advances to the last row's timestamp itself.
Flush_ToLastRow ==
    /\ pc = "rows"
    /\ res = <<>>
    /\ out_flushed' = Len(out_metric)
    /\ current_timestamp' = current_dataheap_timestamp
    /\ pc' = "loop"
    /\ UNCHANGED <<table, ordered, arg_min_timestamp, arg_max_timestamp,
                   min_timestamp, max_timestamp, max_limit, stats,
                   chunk_timedelta, next_timestamp, res,
                   current_dataheap_timestamp, row, previous_time, out_metric,
                   skipped, reported, stop_requested, chunks>>

\* Variant that advances without flushing.
Flush_AdvanceOnly ==
    /\ pc = "rows"
    /\ res = <<>>
    /\ current_timestamp' = current_dataheap_timestamp + 1
    /\ pc' = "loop"
    /\ UNCHANGED <<table, ordered, arg_min_timestamp, arg_max_timestamp,
                   min_timestamp, max_timestamp, max_limit, stats,
                   chunk_timedelta, next_timestamp, res,
                   current_dataheap_timestamp, row, previous_time, out_metric,
                   out_flushed, skipped, reported, stop_requested, chunks>>

Flush ==
    /\ pc = "rows"
    /\ res = <<>>
    /\ out_flushed' = Len(out_metric)
    /\ current_timestamp' = current_dataheap_timestamp + 1
    /\ pc' = "loop"
    /\ UNCHANGED <<table, ordered, arg_min_timestamp, arg_max_timestamp,
                   min_timestamp, max_timestamp, max_limit, stats,
                   chunk_timedelta, next_timestamp, res,
                   current_dataheap_timestamp, row, previous_time, out_metric,
                   skipped, reported, stop_requested, chunks>>

ImportStep ==
    \/ Begin
    \/ Complete
    \/ IssueQuery
    \/ Receive
    \/ NextRow
    \/ Flush

Next ==
    \/ ImportStep
    \/ StatsFail
    \/ QueryFail
    \/ handle_signal

Spec == Init /\ [][Next]_vars

\* import runs on the only thread: a step that can be taken is taken.
FairSpec == Spec /\ WF_vars(ImportStep)

TypeOK ==
    /\ pc \in {"start", "loop", "exec", "rows", "done", "aborted"}
    /\ row \in Nat
    /\ out_flushed <= Len(out_metric)

\* ---- vocabulary of the properties ---------------------------------------
Last(s) == s[Len(s)]

DistinctTimestamps(t) == \A i, j \in 1..Len(t) : i # j => t[i] # t[j]

\* The raw timestamp of the last row a chunk returned.
LastReturned(c) == table[Last(c.rows)]

\* The row cap cut the chunk: its window holds more rows than it returned.
Truncated(c) == Cardinality(InWindow(table, c.lo, c.hi)) > Len(c.rows)

\* The requested bounds lie entirely outside the source's extent.
OutsideExtent ==
    LET s == stats_query(table)
    IN  \/ arg_min_timestamp >= s.max_timestamp + 1
        \/ 0 < arg_max_timestamp /\ arg_max_timestamp <= s.min_timestamp

\* The requested bounds are at least as wide as the source's extent.
WiderThanExtent ==
    LET s == stats_query(table)
    IN  /\ arg_min_timestamp <= s.min_timestamp
        /\ arg_max_timestamp = 0 \/ arg_max_timestamp >= s.max_timestamp + 1

\* ---- C1 -----------------------------------------------------------------
\* C1: the samples passed to the destination's insert have strictly
\* increasing timestamps, whatever the source returns and in whatever order.
C1_StrictlyIncreasing ==
    \A i, j \in 1..Len(out_metric) :
        i < j => out_metric[i].time < out_metric[j].time

\* A completed run over a source that returned a batch out of order, dropped
\* a row and still inserted several samples.
C1_Witness ==
    /\ pc = "done"
    /\ Len(out_metric) >= 2
    /\ skipped # <<>>
    /\ \E k \in 1..Len(chunks) :
          /\ Len(chunks[k].rows) = 2
          /\ table[chunks[k].rows[1]] > table[chunks[k].rows[2]]

\* ---- C2 -----------------------------------------------------------------
\* C2: over a source with pairwise distinct timestamps that answers in
\* ascending order, a completed run has inserted exactly the rows inside the
\* clamped bounds, once each and ascending, in at least ceil(n / max_limit)
\* chunk queries.
C2_ExactImport ==
    (pc = "done" /\ ordered /\ DistinctTimestamps(table)) =>
        LET ids == InWindow(table, min_timestamp, max_timestamp)
        IN  /\ Len(out_metric) = Cardinality(ids)
            /\ \A i \in 1..Len(out_metric) :
                  /\ out_metric[i].value \in ids
                  /\ out_metric[i].time = TimePointOf(table[out_metric[i].value])
            /\ \A i, j \in 1..Len(out_metric) :
                  i < j => out_metric[i].time < out_metric[j].time
            /\ Len(chunks) * max_limit >= Cardinality(ids)

\* ---- C3 -----------------------------------------------------------------
\* C3: over a non-empty source the run ends: it reports completion unless a
\* query fails.
C3_Terminates ==
    (Len(table) > 0) => <>(pc \in {"done", "aborted"})

\* ---- C4 -----------------------------------------------------------------
\* C4: after a chunk that returned rows, the next chunk starts one past the
\* raw timestamp of the last row returned; and once the run has completed,
\* every row between the last row of a truncated chunk and that chunk's
\* nominal edge lies in the window of a later chunk.
C4_AdvancePastLastRow ==
    /\ (pc \in {"loop", "exec"} /\ chunks # <<>> /\ Last(chunks).rows # <<>>) =>
          current_timestamp = LastReturned(Last(chunks)) + 1
    /\ \A k \in 1..Len(chunks) - 1 :
          chunks[k].rows # <<>> => chunks[k + 1].lo = LastReturned(chunks[k]) + 1
    /\ pc = "done" =>
          \A k \in 1..Len(chunks) :
              Truncated(chunks[k]) =>
                  \A i \in 1..Len(table) :
                      (LastReturned(chunks[k]) < table[i] /\ table[i] < chunks[k].hi) =>
                          \E m \in k + 1..Len(chunks) :
                              chunks[m].lo <= table[i] /\ table[i] < chunks[m].hi

\* A completed run over an ordered source with a chunk the cap cut short of
\* a row that lies before the chunk's nominal edge.
C4_Witness ==
    /\ pc = "done"
    /\ ordered
    /\ \E k \in 1..Len(chunks) :
          /\ Truncated(chunks[k])
          /\ \E i \in 1..Len(table) :
                LastReturned(chunks[k]) < table[i] /\ table[i] < chunks[k].hi

\* ---- C5 -----------------------------------------------------------------
\* C5: the total reported on completion is the number of samples inserted
\* into the destination.
C5_ReportedIsAccepted ==
    pc = "done" => reported = <<Len(out_metric)>>

\* ---- C6 -----------------------------------------------------------------
\* C6: a row is inserted, and the cursor set to its time, exactly when its
\* converted timestamp is strictly greater than the cursor; otherwise cursor
\* and destination stay as they are; either way the run goes on with the
\* rest of the batch.
C6_GuardPerRow ==
    [][(pc = "rows" /\ res # <<>> /\ res' # res) =>
          LET id == Head(res)
              t == table[id] * NsPerMs
          IN  /\ res' = Tail(res)
              /\ pc' = "rows"
              /\ IF t > previous_time
                 THEN /\ previous_time' = t
                      /\ out_metric' = Append(out_metric, [time |-> t, value |-> id])
                      /\ skipped' = skipped
                 ELSE /\ previous_time' = previous_time
                      /\ out_metric' = out_metric
                      /\ out_flushed' = out_flushed
                      /\ skipped' = Append(skipped, id)]_vars

\* A batch that arrived out of order: its first row was inserted, its second
\* one discarded, and the run completed.
C6_Witness ==
    /\ pc = "done"
    /\ \E k \in 1..Len(chunks) :
          /\ Len(chunks[k].rows) = 2
          /\ table[chunks[k].rows[1]] > table[chunks[k].rows[2]]
          /\ \E i \in 1..Len(out_metric) : out_metric[i].value = chunks[k].rows[1]
          /\ \E i \in 1..Len(skipped) : skipped[i] = chunks[k].rows[2]

\* ---- C7 -----------------------------------------------------------------
\* C7: once clamped, the bounds are the requested ones cut to the source's
\* extent, and exactly the extent when the request is at least as wide.
C7_ClampedBounds ==
    pc \in {"loop", "exec", "rows", "done"} =>
        LET s == stats_query(table)
        IN  /\ stats = s
            /\ min_timestamp = Max(arg_min_timestamp, s.min_timestamp)
            /\ arg_max_timestamp # 0 =>
                  max_timestamp = Min(arg_max_timestamp, s.max_timestamp + 1)
            /\ arg_max_timestamp = 0 => max_timestamp = s.max_timestamp + 1
            /\ WiderThanExtent =>
                  /\ min_timestamp = s.min_timestamp
                  /\ max_timestamp = s.max_timestamp + 1

\* Bounds clamped for a request with an explicit upper end beyond the last
\* row of a non-empty source.
C7_Witness ==
    /\ pc = "loop"
    /\ Len(table) > 0
    /\ WiderThanExtent
    /\ arg_max_timestamp # 0
    /\ arg_min_timestamp < table[1]

\* ---- C8 -----------------------------------------------------------------
\* C8: with requested bounds entirely outside the source's extent no chunk
\* query is issued and nothing is inserted; the loop can only exit, and it
\* reports 0.
C8_OutsideExtentNoWork ==
    OutsideExtent =>
        /\ pc \in {"start", "loop", "done", "aborted"}
        /\ pc = "loop" => current_timestamp >= max_timestamp
        /\ pc = "done" => reported = <<0>>
        /\ out_metric = <<>>
        /\ chunks = <<>>
        /\ skipped = <<>>

\* A completed run over a non-empty source whose rows all lie below the
\* requested lower bound.
C8_Witness ==
    /\ pc = "done"
    /\ Len(table) > 0
    /\ arg_min_timestamp >= Last(table) + 1
    /\ reported = <<0>>

\* ---- C9 -----------------------------------------------------------------
\* C9: once the stop flag is set, the loop issues no further chunk query.
C9_StopObserved ==
    [][(stop_requested = 1 /\ pc = "loop") => pc' # "exec"]_vars

\* ---- C10 ----------------------------------------------------------------
\* C10: when a chunk query is issued or outstanding, and when completion is
\* reported, the previous result set is used up and every sample inserted so
\* far has been flushed.
C10_FlushedBeforeQuery ==
    pc \in {"loop", "exec", "done"} =>
        /\ res = <<>>
        /\ out_flushed = Len(out_metric)

\* A chunk query outstanding after an earlier chunk's samples were inserted.
C10_Witness ==
    /\ pc = "exec"
    /\ Len(out_metric) >= 1
    /\ Len(chunks) >= 2

\* ---- C11 ----------------------------------------------------------------
\* C11: a chunk query that is left without an answer (the step out of "exec"
\* adds no chunk to the history where an answer would) ends the run there:
\* the step changes nothing but the position, which becomes "aborted"; from
\* "aborted" the import does nothing any more (no query, insert, flush or
\* retry; only the signal handler may still set its flag); no completion is
\* reported and every sample inserted before is flushed and stays as it is.
C11_QueryFailureAborts ==
    [][/\ (/\ pc = "exec" /\ pc' # "exec"
           /\ chunks' = chunks
           /\ chunks # Record(chunks, [lo |-> current_timestamp,
                                       hi |-> next_timestamp, rows |-> res'])) =>
            /\ pc' = "aborted"
            /\ out_metric' = out_metric
            /\ out_flushed' = out_flushed
            /\ out_flushed = Len(out_metric)
            /\ reported' = <<>>
            /\ row' = row
            /\ current_timestamp' = current_timestamp
            /\ previous_time' = previous_time
       /\ pc = "aborted" =>
            UNCHANGED <<table, ordered, arg_min_timestamp, arg_max_timestamp,
                        min_timestamp, max_timestamp, max_limit, stats,
                        chunk_timedelta, current_timestamp, next_timestamp,
                        res, current_dataheap_timestamp, row, previous_time,
                        out_metric, out_flushed, skipped, reported, chunks,
                        pc>>]_vars

\* A run aborted by a chunk query after earlier chunks inserted samples.
C11_Witness ==
    /\ pc = "aborted"
    /\ Len(chunks) >= 2
    /\ Len(out_metric) >= 1
    /\ out_flushed = Len(out_metric)
    /\ reported = <<>>

\* ---- C12 ----------------------------------------------------------------
\* C12: over an empty source the probe fails, so the run never gets past it:
\* no clamping, no chunk query, no insert, no completion.
C12_EmptySourceFails ==
    Len(table) = 0 => pc \in {"start", "aborted"}

\* ---- C13 ----------------------------------------------------------------
\* The first row a chunk query returned in this run.
FirstReturned ==
    LET k == CHOOSE n \in 1..Len(chunks) :
                 /\ chunks[n].rows # <<>>
                 /\ \A m \in 1..n - 1 : chunks[m].rows = <<>>
    IN  chunks[k].rows[1]

\* C13: the first row returned in a run is accepted and inserted, whatever
\* its timestamp.
C13_FirstRowAccepted ==
    row >= 1 =>
        /\ out_metric # <<>>
        /\ out_metric[1].value = FirstReturned

\* ---- C14 ----------------------------------------------------------------
\* The position is past the clamping of lines 121-129.
Clamped == pc \in {"loop", "exec", "rows", "done"}

\* C14 as stated, over a non-empty source: once clamped, the lower bound is
\* at most the upper bound, whatever was requested.
C14_LowerAtMostUpper ==
    (Clamped /\ Len(table) > 0) => min_timestamp <= max_timestamp

\* The request is not inverted and reaches the source's extent: its lower end
\* is at most stats.max_timestamp + 1 and its upper end, when given, is at
\* least its lower end and at least stats.min_timestamp.
RequestMeetsExtent ==
    /\ arg_min_timestamp <= stats.max_timestamp + 1
    /\ \/ arg_max_timestamp = 0
       \/ /\ arg_max_timestamp >= arg_min_timestamp
          /\ arg_max_timestamp >= stats.min_timestamp

\* C14 amended: once clamped, the lower bound is at most the upper bound
\* exactly when the request meets the extent; for any other request the
\* lower bound is above the upper bound, and the run still does no work.
C14_LowerAtMostUpperIfMeets ==
    Clamped =>
        /\ (min_timestamp <= max_timestamp) <=> RequestMeetsExtent
        /\ ~RequestMeetsExtent => (chunks = <<>> /\ out_metric = <<>> /\ row = 0)

\* A completed run whose requested lower bound is one past the last row of
\* a non-empty source: the clamped bounds coincide.
C14_Witness ==
    /\ pc = "done"
    /\ Len(table) > 0
    /\ arg_min_timestamp = stats.max_timestamp + 1
    /\ min_timestamp = max_timestamp

\* ---- C15 ----------------------------------------------------------------
\* C15: over a source that answers in ascending order, when the run has
\* completed every row inside the clamped bounds was returned by some chunk
\* query.
C15_NoRowSkipped ==
    (pc = "done" /\ ordered) =>
        \A i \in InWindow(table, min_timestamp, max_timestamp) :
            \E k \in 1..Len(chunks) : i \in Range(chunks[k].rows)

\* ---- C16 ----------------------------------------------------------------
\* C16: over a source that answers in ascending order, a chunk query starts
\* above every timestamp an earlier query returned and not below the edge an
\* earlier empty chunk reached, so no row is returned by two queries; the
\* same holds of the query about to be issued or outstanding.
C16_NoRowTwice ==
    ordered =>
        /\ \A k, m \in 1..Len(chunks) :
              k < m =>
                  /\ \A i \in Range(chunks[k].rows) : table[i] < chunks[m].lo
                  /\ chunks[k].rows = <<>> => chunks[k].hi <= chunks[m].lo
                  /\ Range(chunks[k].rows) \cap Range(chunks[m].rows) = {}
        /\ pc \in {"loop", "exec"} =>
              \A k \in 1..Len(chunks) :
                  /\ \A i \in Range(chunks[k].rows) : table[i] < current_timestamp
                  /\ chunks[k].rows = <<>> => chunks[k].hi <= current_timestamp

\* A completed run over an ordered source with two chunks that returned rows
\* and an empty chunk of positive width between them.
C16_Witness ==
    /\ pc = "done"
    /\ ordered
    /\ \E k, l, m \in 1..Len(chunks) :
          /\ k < l /\ l < m
          /\ chunks[k].rows # <<>>
          /\ chunks[l].rows = <<>> /\ chunks[l].lo < chunks[l].hi
          /\ chunks[m].rows # <<>>

\* ---- C17 ----------------------------------------------------------------
\* C17: the step that takes an empty result moves current_timestamp to
\* next_timestamp and goes back to the loop's head; it inserts nothing,
\* flushes nothing and leaves cursor, row count and bounds as they are.
C17_EmptyChunkOnlyAdvances ==
    [][(pc = "exec" /\ pc' # "exec" /\ pc' # "aborted" /\ res' = <<>>) =>
          /\ pc' = "loop"
          /\ current_timestamp' = next_timestamp
          /\ InWindow(table, current_timestamp, next_timestamp) = {}
          /\ UNCHANGED <<out_metric, out_flushed, previous_time, row, skipped,
                         reported, next_timestamp, min_timestamp, max_timestamp,
                         chunk_timedelta, current_dataheap_timestamp>>]_vars

\* After samples were inserted, an empty chunk of positive width has just
\* moved the window to its nominal edge.
C17_Witness ==
    /\ pc = "loop"
    /\ chunks # <<>>
    /\ Last(chunks).rows = <<>>
    /\ Last(chunks).lo < Last(chunks).hi
    /\ current_timestamp = Last(chunks).hi
    /\ Len(out_metric) >= 1
    /\ out_flushed = Len(out_metric)

\* ---- C18 ----------------------------------------------------------------
\* C18, over a non-empty source: every chunk query has a non-empty window
\* inside the clamped bounds, and starts above the start of the query before
\* it.
C18_WindowAdvances ==
    Len(table) > 0 =>
    /\ pc = "exec" =>
          /\ min_timestamp <= current_timestamp
          /\ current_timestamp < next_timestamp
          /\ next_timestamp <= max_timestamp
          /\ chunks # <<>> => Last(chunks).lo < current_timestamp
    /\ \A k \in 1..Len(chunks) :
          /\ min_timestamp <= chunks[k].lo
          /\ chunks[k].lo < chunks[k].hi
          /\ chunks[k].hi <= max_timestamp
          /\ k > 1 => chunks[k - 1].lo < chunks[k].lo

\* ---- C19 ----------------------------------------------------------------
\* C19: every sample in the destination is a source row whose raw timestamp
\* lies inside the clamped bounds, converted to the destination's time.
C19_InsertedInBounds ==
    \A n \in 1..Len(out_metric) :
        LET i == out_metric[n].value
        IN  /\ i \in 1..Len(table)
            /\ out_metric[n].time = table[i] * NsPerMs
            /\ min_timestamp <= table[i]
            /\ table[i] < max_timestamp

\* A completed run that inserted samples and left out rows below the clamped
\* lower bound and rows at or above the clamped upper bound.
C19_Witness ==
    /\ pc = "done"
    /\ out_metric # <<>>
    /\ \E i \in 1..Len(table) : table[i] < min_timestamp
    /\ \E i \in 1..Len(table) : table[i] >= max_timestamp

====
